---------------------------- MODULE Spec2Model ----------------------------
(***************************************************************************)
(* The HTTP greeter of src/src/index.js: one Express application with one  *)
(* route, GET /, started with app.listen(PORT, HOST, callback).            *)
(*                                                                         *)
(* index.js is seventeen lines; what the process does is decided by the    *)
(* calls it makes.  Each call is modelled by what it does in Express 4.x   *)
(* (lib/application.js, lib/router, lib/response.js, lib/request.js, the   *)
(* fresh and finalhandler packages) and in Node's net module               *)
(* (normalizeArgs, isPipeName, toNumber, validatePort, Server.listen).     *)
(*                                                                         *)
(* Strings whose characters are inspected (the environment value, request  *)
(* URLs) are sequences of one-character strings; strings that are only     *)
(* compared are TLA+ strings.                                              *)
(***************************************************************************)
EXTENDS Integers, Sequences, FiniteSets, TLC

VARIABLES
    env,          \* process.env.APP_PORT_NUMBER, a JS value
    inUse,        \* TCP ports of 0.0.0.0 this process cannot bind
    pc,           \* "init", "binding", "serving", "crashed", "terminated"
    PORT,         \* the constant PORT of index.js:6, a JS value
    routes,       \* the application's router stack
    listeners,    \* the endpoints this process is listening on
    log,          \* the lines console.log has written
    startEnv,     \* the value of APP_PORT_NUMBER the process was started with
    envReads,     \* how often process.env.APP_PORT_NUMBER was read
    bindAttempts, \* how often a bind was attempted
    conns         \* the client connections, each with its request and response

vars ==
    <<env, inUse, pc, PORT, routes, listeners, log, startEnv, envReads,
      bindAttempts, conns>>

----------------------------------------------------------------------------
(* Bounds *)

MaxConns == 2

Conns == 1..MaxConns

----------------------------------------------------------------------------
(* JavaScript values *)

JsUndefined == [t |-> "undefined", s |-> <<>>, n |-> 0]

JsString(s) == [t |-> "string", s |-> s, n |-> 0]

JsNumber(n) == [t |-> "number", s |-> <<>>, n |-> n]

\* ToBoolean: undefined and the empty string are falsy, as is the number 0
Truthy(v) ==
    CASE v.t = "undefined" -> FALSE
      [] v.t = "string" -> v.s # <<>>
      [] v.t = "number" -> v.n # 0

\* a || b
JsOr(a, b) == IF Truthy(a) THEN a ELSE b

Digits == <<"0", "1", "2", "3", "4", "5", "6", "7", "8", "9">>

IsDigit(c) == \E i \in 1..10 : Digits[i] = c

DigitVal(c) == (CHOOSE i \in 1..10 : Digits[i] = c) - 1

RECURSIVE TrimLeft(_)
TrimLeft(s) == IF s # <<>> /\ Head(s) = " " THEN TrimLeft(Tail(s)) ELSE s

RECURSIVE TrimRight(_)
TrimRight(s) ==
    IF s # <<>> /\ s[Len(s)] = " " THEN TrimRight(SubSeq(s, 1, Len(s) - 1)) ELSE s

\* String.prototype.trim
Trim(s) == TrimRight(TrimLeft(s))

RECURSIVE DecimalValue(_)
DecimalValue(s) ==
    IF s = <<>> THEN 0
    ELSE 10 * DecimalValue(SubSeq(s, 1, Len(s) - 1)) + DigitVal(s[Len(s)])

AllDigits(s) == s # <<>> /\ \A i \in 1..Len(s) : IsDigit(s[i])

\* Number(string): whitespace is trimmed, the empty string is 0, an optionally
\* signed run of decimal digits is its value, anything else is NaN.  (The
\* hexadecimal, fractional and exponent forms do not occur in EnvValues.)
StringToNumber(s) ==
    LET t == Trim(s) IN
    IF t = <<>> THEN [nan |-> FALSE, n |-> 0]
    ELSE IF AllDigits(t) THEN [nan |-> FALSE, n |-> DecimalValue(t)]
    ELSE IF Head(t) = "+" /\ AllDigits(Tail(t))
         THEN [nan |-> FALSE, n |-> DecimalValue(Tail(t))]
    ELSE IF Head(t) = "-" /\ AllDigits(Tail(t))
         THEN [nan |-> FALSE, n |-> 0 - DecimalValue(Tail(t))]
    ELSE [nan |-> TRUE, n |-> 0]

\* Number(v) for the values PORT can hold
ToNumber(v) ==
    CASE v.t = "number" -> [nan |-> FALSE, n |-> v.n]
      [] v.t = "string" -> StringToNumber(v.s)
      [] v.t = "undefined" -> [nan |-> TRUE, n |-> 0]

RECURSIVE NatToString(_)
NatToString(n) ==
    IF n < 10 THEN <<Digits[n + 1]>>
    ELSE NatToString(n \div 10) \o <<Digits[(n % 10) + 1]>>

\* String(v), as a template literal applies it
JsToString(v) ==
    CASE v.t = "string" -> v.s
      [] v.t = "number" -> IF v.n < 0 THEN <<"-">> \o NatToString(0 - v.n)
                           ELSE NatToString(v.n)
      [] v.t = "undefined" ->
            <<"u", "n", "d", "e", "f", "i", "n", "e", "d">>

----------------------------------------------------------------------------
(* index.js:5-7, the constants *)

DefaultPort == 80

HOST == "0.0.0.0"

\* Mutant of ReadPort: another default port
ReadPortDefault3000(e) == JsOr(e, JsNumber(3000))

\* const PORT = process.env.APP_PORT_NUMBER || 80
ReadPort(e) == JsOr(e, JsNumber(DefaultPort))

----------------------------------------------------------------------------
(* The environment the process is started in *)

\* APP_PORT_NUMBER: unset, empty, "80", "8080", "0", "abc", "70000", "-1"
EnvValues ==
    { JsUndefined,
      JsString(<<>>),
      JsString(<<"8", "0">>),
      JsString(<<"8", "0", "8", "0">>),
      JsString(<<"0">>),
      JsString(<<"a", "b", "c">>),
      JsString(<<"7", "0", "0", "0", "0">>),
      JsString(<<"-", "1">>) }

\* The ports the operating system hands out for a bind to port 0
EphemeralPorts == {49152, 49153}

\* The ports another process holds, or this process may not bind
InUseChoices == {{}, {80}, {8080}}

----------------------------------------------------------------------------
(* app.listen(PORT, HOST, callback): Node's net.Server.listen *)

MaxPortNumber == 65535

Tcp(h, p) == [kind |-> "tcp", host |-> h, port |-> p, path |-> <<>>]

Pipe(path) == [kind |-> "pipe", host |-> "", port |-> 0, path |-> path]

\* net.js toNumber: (x = Number(x)) >= 0 ? x : false
NetToNumberIsFalse(v) == LET x == ToNumber(v) IN x.nan \/ x.n < 0

\* net.js isPipeName: typeof s === 'string' && toNumber(s) === false
IsPipeName(v) == v.t = "string" /\ NetToNumberIsFalse(v)

\* validatePort: a string that trims to nothing, a value that is not an
\* unsigned integer, or one above 0xFFFF throws ERR_SOCKET_BAD_PORT
PortIsValid(v) ==
    LET x == ToNumber(v) IN
    /\ v.t \in {"number", "string"}
    /\ ~(v.t = "string" /\ Trim(v.s) = <<>>)
    /\ ~x.nan
    /\ x.n >= 0
    /\ x.n <= MaxPortNumber

\* What listen(port, host) asks the operating system for: a path for a pipe
\* name, else (host, port | 0); "throws" when validatePort rejects the port
ListenTarget(port, host) ==
    IF IsPipeName(port) THEN [throws |-> FALSE, ep |-> Pipe(port.s)]
    ELSE IF PortIsValid(port)
         THEN [throws |-> FALSE, ep |-> Tcp(host, ToNumber(port).n)]
    ELSE [throws |-> TRUE, ep |-> Tcp(host, 0)]

\* Mutant of BindResults: a port in use falls back to an ephemeral port
BindWithFallback(ep, used) ==
    IF ep.kind = "pipe" THEN {ep}
    ELSE IF ep.port = 0 \/ ep.port \in used
         THEN {Tcp(ep.host, p) : p \in EphemeralPorts \ used}
    ELSE {ep}

\* The endpoints a bind of ep can end up on: port 0 asks for any free
\* ephemeral port; a named port is bound as named or not at all
BindResults(ep, used) ==
    IF ep.kind = "pipe" THEN {ep}
    ELSE IF ep.port = 0
         THEN {Tcp(ep.host, p) : p \in EphemeralPorts \ used}
    ELSE IF ep.port \in used THEN {}
    ELSE {ep}

\* console.log(`Running on http://${HOST}:${PORT}`)
StartupLine(host, port) == <<"Running on http://", host, ":">> \o JsToString(port)


----------------------------------------------------------------------------
(* HTTP requests and responses *)

Greeting == "Jay Shree Krishna! Welcome to the world of DevOps!..."

Methods == {"GET", "HEAD", "POST", "PUT", "DELETE", "OPTIONS"}

\* An entity tag: W/"<length>-<hash of the body>" when weak
Tag(weak, body) == [weak |-> weak, of |-> body]

\* The request headers a response can depend on
Headers(star, tags, noCache, ims) ==
    [star |-> star, tags |-> tags, noCache |-> noCache, ims |-> ims]

NoHeaders == Headers(FALSE, <<>>, FALSE, FALSE)

Request(method, url, headers) ==
    [method |-> method, url |-> url, headers |-> headers]

Response(status, ctype, allow, etag, body) ==
    [status |-> status, ctype |-> ctype, allow |-> allow, etag |-> etag,
     body |-> body]

NoTag == [weak |-> FALSE, of |-> <<>>]

NoRequest == Request("", <<>>, NoHeaders)

NoResponse == Response(0, "", <<>>, NoTag, <<>>)

Html == "text/html; charset=utf-8"

\* parseurl(req).pathname: the request target up to its first "?"
RECURSIVE Pathname(_)
Pathname(url) ==
    IF url = <<>> \/ Head(url) = "?" THEN <<>>
    ELSE <<Head(url)>> \o Pathname(Tail(url))

----------------------------------------------------------------------------
(* index.js:10-13 on Express: the router and res.send *)

\* app.get(path, handler): one route for the method get
GetRoute(path) == [path |-> path, methods |-> {"get"}]

\* The layer's pattern (path-to-regexp, strict: false, end: true): the route's
\* path without its trailing slash, then an optional slash
StripSlash(p) ==
    IF p # <<>> /\ p[Len(p)] = "/" THEN SubSeq(p, 1, Len(p) - 1) ELSE p

\* Mutant of MatchLayer: the path is matched as a prefix, as app.use does
MatchPrefix(routePath, path) ==
    /\ Len(path) >= Len(StripSlash(routePath))
    /\ SubSeq(path, 1, Len(StripSlash(routePath))) = StripSlash(routePath)

MatchLayer(routePath, path) ==
    \/ path = StripSlash(routePath)
    \/ path = StripSlash(routePath) \o <<"/">>

LowerMethod(m) ==
    CASE m = "GET" -> "get"
      [] m = "HEAD" -> "head"
      [] m = "POST" -> "post"
      [] m = "PUT" -> "put"
      [] m = "DELETE" -> "delete"
      [] m = "OPTIONS" -> "options"

\* Mutant of HandlesMethod: the route answers every method, as app.all does
HandlesEveryMethod(route, method) == route.methods # {}

\* Route.prototype._handles_method: HEAD falls back to the get handler
HandlesMethod(route, method) ==
    LET name == LowerMethod(method) IN
    IF name = "head" /\ "head" \notin route.methods
    THEN "get" \in route.methods
    ELSE name \in route.methods

\* Route.prototype._options: the route's methods, with HEAD beside GET
RouteOptions(route) ==
    LET get == IF "get" \in route.methods THEN <<"GET">> ELSE <<>>
        head == IF "get" \in route.methods \/ "head" \in route.methods
                THEN <<"HEAD">> ELSE <<>>
    IN get \o head

\* etag(body, {weak: true}), the default "etag fn"
ETag(body) == Tag(TRUE, body)

\* fresh: one tag of If-None-Match against the response's ETag
TagMatches(m, etag) ==
    \/ m = etag
    \/ m.of = etag.of /\ m.weak /\ ~etag.weak
    \/ m.of = etag.of /\ etag.weak /\ ~m.weak

\* fresh(reqHeaders, {etag, last-modified}); res.send sets no Last-Modified
Fresh(h, etag) ==
    LET hasNoneMatch == h.star \/ h.tags # <<>> IN
    IF ~h.ims /\ ~hasNoneMatch THEN FALSE
    ELSE IF h.noCache THEN FALSE
    ELSE IF hasNoneMatch /\ ~h.star
            /\ ~\E i \in 1..Len(h.tags) : TagMatches(h.tags[i], etag)
         THEN FALSE
    ELSE IF h.ims THEN FALSE
    ELSE TRUE

\* req.fresh: only GET and HEAD, only for a 2xx or 304 response
ReqFresh(req, status, etag) ==
    /\ req.method \in {"GET", "HEAD"}
    /\ (status >= 200 /\ status < 300) \/ status = 304
    /\ Fresh(req.headers, etag)

\* res.send(string): Content-Type html, a weak ETag, 304 and no body for a
\* fresh request, no body for HEAD
Send(req, allow, body) ==
    LET etag == ETag(body)
        status == IF ReqFresh(req, 200, etag) THEN 304 ELSE 200
    IN Response(status,
                IF status = 304 THEN "" ELSE Html,
                allow,
                etag,
                IF status = 304 \/ req.method = "HEAD" THEN <<>> ELSE body)

\* Mutant of RootHandler: another text
HelloHandler(req) == Send(req, <<>>, <<"Hello World">>)

\* Mutant of RootHandler: the body echoes a request header
EchoHandler(req) ==
    Send(req, <<>>, <<Greeting, IF req.headers.noCache THEN "no-cache" ELSE "">>)

\* Mutant of RootHandler: the body counts the requests answered so far
CountingHandler(req) ==
    Send(req, <<>>,
         <<Greeting>> \o NatToString(Cardinality({c \in Conns : conns[c].st = "answered"})))

\* (req, res) => { res.send('Jay Shree Krishna! ...') }
RootHandler(req) == Send(req, <<>>, <<Greeting>>)

\* finalhandler: 404 "Cannot <METHOD> <path>", no body for HEAD
NotFound(req) ==
    Response(404, Html, <<>>, NoTag,
             IF req.method = "HEAD" THEN <<>>
             ELSE <<"Cannot ", req.method, " ">> \o Pathname(req.url))

\* options.join(',')
RECURSIVE Join(_)
Join(options) ==
    IF Len(options) <= 1 THEN options
    ELSE <<Head(options), ",">> \o Join(Tail(options))

\* sendOptionsResponse: Allow and the body list the methods
OptionsResponse(req, options) == Send(req, Join(options), Join(options))

RECURSIVE AllOptions(_, _)
AllOptions(rs, path) ==
    IF rs = <<>> THEN <<>>
    ELSE (IF MatchLayer(Head(rs).path, path) THEN RouteOptions(Head(rs)) ELSE <<>>)
         \o AllOptions(Tail(rs), path)

\* Router.handle: the first route whose path matches and that handles the
\* method runs its handler; with none, OPTIONS is answered from the methods
\* of the routes whose path matched, and everything else is not found
Dispatch(rs, req) ==
    LET path == Pathname(req.url)
        hits == {i \in 1..Len(rs) :
                    MatchLayer(rs[i].path, path) /\ HandlesMethod(rs[i], req.method)}
        options == AllOptions(rs, path)
    IN IF hits # {} THEN RootHandler(req)
       ELSE IF req.method = "OPTIONS" /\ options # <<>>
            THEN OptionsResponse(req, options)
       ELSE NotFound(req)

----------------------------------------------------------------------------
(* The requests clients send *)

Root == <<"/">>

RootWithQuery == <<"/", "?", "x">>

Health == <<"/", "h", "e", "a", "l", "t", "h">>

Foo == <<"/", "f", "o", "o">>

GreetingTag == ETag(<<Greeting>>)

OtherTag == Tag(FALSE, <<"other">>)

\* If-None-Match: *, the greeting's tag (weak and strong), another tag;
\* Cache-Control: no-cache; If-Modified-Since
ConditionalHeaders ==
    { Headers(TRUE, <<>>, FALSE, FALSE),
      Headers(FALSE, <<GreetingTag>>, FALSE, FALSE),
      Headers(FALSE, <<OtherTag, Tag(FALSE, <<Greeting>>)>>, FALSE, FALSE),
      Headers(FALSE, <<OtherTag>>, FALSE, FALSE),
      Headers(TRUE, <<>>, TRUE, FALSE),
      Headers(FALSE, <<>>, FALSE, TRUE) }

\* Every method on /, GET and OPTIONS on other paths, conditional requests on /
Requests ==
    {Request(m, Root, NoHeaders) : m \in Methods}
    \cup {Request("GET", u, NoHeaders) : u \in {RootWithQuery, Health, Foo}}
    \cup {Request("OPTIONS", Foo, NoHeaders)}
    \cup {Request("GET", Root, h) : h \in ConditionalHeaders}
    \cup {Request(m, Root, Headers(TRUE, <<>>, FALSE, FALSE)) : m \in {"HEAD", "POST"}}

\* The requests of the life-cycle specification
ProbeRequests ==
    { Request("GET", Root, NoHeaders),
      Request("GET", Foo, NoHeaders),
      Request("POST", Root, NoHeaders),
      Request("GET", Root, Headers(TRUE, <<>>, FALSE, FALSE)) }

----------------------------------------------------------------------------
(* The process *)

ClosedConn == [st |-> "closed", req |-> NoRequest, res |-> NoResponse]

Init ==
    /\ env \in EnvValues
    /\ inUse \in InUseChoices
    /\ pc = "init"
    /\ PORT = JsUndefined
    /\ routes = <<>>
    /\ listeners = {}
    /\ log = <<>>
    /\ startEnv = JsUndefined
    /\ envReads = 0
    /\ bindAttempts = 0
    /\ conns = [c \in Conns |-> ClosedConn]

\* index.js:1-15 up to the return of app.listen: PORT is read, the route is
\* registered, and listen either throws on its port or starts the bind
Main ==
    /\ pc = "init"
    /\ PORT' = ReadPort(env)
    /\ startEnv' = env
    /\ envReads' = envReads + 1
    /\ routes' = <<GetRoute(Root)>>
    /\ pc' = IF ListenTarget(ReadPort(env), HOST).throws THEN "crashed" ELSE "binding"
    /\ UNCHANGED <<env, inUse, listeners, log, bindAttempts, conns>>

\* The bind succeeds: 'listening' is emitted and the callback of
\* index.js:15-17 logs, before any request is read
ListenOk ==
    /\ pc = "binding"
    /\ \E ep \in BindResults(ListenTarget(PORT, HOST).ep, inUse) :
          listeners' = {ep}
    /\ bindAttempts' = bindAttempts + 1
    /\ log' = Append(log, StartupLine(HOST, PORT))
    /\ pc' = "serving"
    /\ UNCHANGED <<env, inUse, PORT, routes, startEnv, envReads, conns>>

\* The bind fails: 'error' is emitted, nothing listens for it, the process dies
ListenFail ==
    /\ pc = "binding"
    /\ BindResults(ListenTarget(PORT, HOST).ep, inUse) = {}
    /\ bindAttempts' = bindAttempts + 1
    /\ pc' = "crashed"
    /\ UNCHANGED <<env, inUse, PORT, routes, listeners, log, startEnv, envReads, conns>>

\* A connection to ep is accepted when this process listens on ep, and is
\* refused otherwise
Accepts(ep) == pc = "serving" /\ ep \in listeners

\* A client connects to a listener and sends a request
Connect(c, req) ==
    /\ \E ep \in listeners : Accepts(ep)
    /\ conns[c].st = "closed"
    /\ conns' = [conns EXCEPT ![c] = [st |-> "pending", req |-> req, res |-> NoResponse]]
    /\ UNCHANGED <<env, inUse, pc, PORT, routes, listeners, log, startEnv, envReads,
                   bindAttempts>>

\* Mutant of Handle: the port is read from the environment again
HandleRereadingEnv(c) ==
    /\ pc = "serving"
    /\ conns[c].st = "pending"
    /\ conns' = [conns EXCEPT ![c].st = "answered",
                              ![c].res = Dispatch(routes, conns[c].req)]
    /\ PORT' = ReadPort(env)
    /\ envReads' = envReads + 1
    /\ UNCHANGED <<env, inUse, pc, routes, listeners, log, startEnv, bindAttempts>>

\* Mutant of Handle: the request is logged
HandleLogging(c) ==
    /\ pc = "serving"
    /\ conns[c].st = "pending"
    /\ conns' = [conns EXCEPT ![c].st = "answered",
                              ![c].res = Dispatch(routes, conns[c].req)]
    /\ log' = Append(log, <<conns[c].req.method, " ">> \o conns[c].req.url)
    /\ UNCHANGED <<env, inUse, pc, PORT, routes, listeners, startEnv, envReads,
                   bindAttempts>>

\* The application handles the request of connection c and responds
Handle(c) ==
    /\ pc = "serving"
    /\ conns[c].st = "pending"
    /\ conns' = [conns EXCEPT ![c].st = "answered",
                              ![c].res = Dispatch(routes, conns[c].req)]
    /\ UNCHANGED <<env, inUse, pc, PORT, routes, listeners, log, startEnv, envReads,
                   bindAttempts>>

\* The client has its response; the connection closes
Close(c) ==
    /\ conns[c].st = "answered"
    /\ conns' = [conns EXCEPT ![c] = ClosedConn]
    /\ UNCHANGED <<env, inUse, pc, PORT, routes, listeners, log, startEnv, envReads,
                   bindAttempts>>

\* APP_PORT_NUMBER is changed after the process was started
ChangeEnv ==
    /\ pc # "init"
    /\ \E e \in EnvValues \ {env} : env' = e
    /\ UNCHANGED <<inUse, pc, PORT, routes, listeners, log, startEnv, envReads,
                   bindAttempts, conns>>

\* A termination signal ends the serving process and its connections
Terminate ==
    /\ pc = "serving"
    /\ pc' = "terminated"
    /\ listeners' = {}
    /\ conns' = [c \in Conns |-> ClosedConn]
    /\ UNCHANGED <<env, inUse, PORT, routes, log, startEnv, envReads, bindAttempts>>

Next ==
    \/ Main
    \/ ListenOk
    \/ ListenFail
    \/ \E c \in Conns, req \in ProbeRequests : Connect(c, req)
    \/ \E c \in Conns : Handle(c)
    \/ \E c \in Conns : Close(c)
    \/ ChangeEnv
    \/ Terminate

\* The whole life of the process
Spec == Init /\ [][Next]_vars

\* The HTTP surface: every request of Requests, the environment left alone,
\* the process started on the default port, on 8080 or on port 0
HttpEnvValues == {JsUndefined, JsString(<<"8", "0", "8", "0">>), JsString(<<"0">>)}

InitHttp == Init /\ env \in HttpEnvValues /\ inUse \in {{}, {80}}

NextHttp ==
    \/ Main
    \/ ListenOk
    \/ ListenFail
    \/ \E c \in Conns, req \in Requests : Connect(c, req)
    \/ \E c \in Conns : Handle(c)
    \/ \E c \in Conns : Close(c)
    \/ Terminate

SpecHttp == InitHttp /\ [][NextHttp]_vars

----------------------------------------------------------------------------
(* What the claims speak of *)

Unset(e) == e.t = "undefined"

Empty(e) == e.t = "string" /\ e.s = <<>>

\* e is the decimal numeral of n
Numeral(e, n) == e.t = "string" /\ e.s = NatToString(n)

\* e is the decimal numeral of some port number in lo..65535
NamesPort(e, lo) ==
    /\ e.t = "string"
    /\ AllDigits(e.s)
    /\ DecimalValue(e.s) >= lo
    /\ DecimalValue(e.s) <= 65535
    /\ e.s = NatToString(DecimalValue(e.s))

Started == pc # "init"

Answered(c) == conns[c].st = "answered"

IsGreeting(res) == res.status = 200 /\ res.body = <<Greeting>>

GetRoot(req) == req.method = "GET" /\ Pathname(req.url) = <<"/">>

\* The request carries a validator the greeting satisfies: If-None-Match is *
\* or names the greeting's entity tag, with neither Cache-Control: no-cache
\* nor If-Modified-Since
ValidatorHit(h) ==
    /\ h.star \/ \E i \in 1..Len(h.tags) : h.tags[i].of = <<Greeting>>
    /\ ~h.noCache
    /\ ~h.ims

\* The connection c goes from pending to answered in this step
Handled(c) == conns[c].st = "pending" /\ conns'[c].st = "answered"

----------------------------------------------------------------------------
(* C1 *)

\* C1 as stated: a serving process listens exactly on 0.0.0.0:80 when
\* APP_PORT_NUMBER was unset or empty, and exactly on 0.0.0.0:p when it was
\* the numeral of a port p of [0, 65535].
C1_AsStated ==
    pc = "serving" =>
        /\ Unset(startEnv) \/ Empty(startEnv) => listeners = {Tcp("0.0.0.0", 80)}
        /\ NamesPort(startEnv, 0) =>
              listeners = {Tcp("0.0.0.0", DecimalValue(startEnv.s))}

\* C1, amended: a serving process has exactly one listener.  It is
\* 0.0.0.0:80 when APP_PORT_NUMBER was unset or empty, and 0.0.0.0:p when it
\* was the numeral of a port p of [1, 65535]; connections to p are then
\* accepted and, for p other than 80, connections to port 80 are refused.
\* For "0" the listener is on 0.0.0.0 at a port the operating system chose,
\* and for a value that is no non-negative number no TCP port is bound at all.
C1_OneListener ==
    pc = "serving" =>
        /\ Cardinality(listeners) = 1
        /\ Unset(startEnv) \/ Empty(startEnv) => listeners = {Tcp("0.0.0.0", 80)}
        /\ NamesPort(startEnv, 1) =>
              /\ listeners = {Tcp("0.0.0.0", DecimalValue(startEnv.s))}
              /\ Accepts(Tcp("0.0.0.0", DecimalValue(startEnv.s)))
              /\ DecimalValue(startEnv.s) # 80 => ~Accepts(Tcp("0.0.0.0", 80))
        /\ Numeral(startEnv, 0) =>
              \E p \in EphemeralPorts : listeners = {Tcp("0.0.0.0", p)}
        /\ ~(Unset(startEnv) \/ Empty(startEnv) \/ NamesPort(startEnv, 0)) =>
              \A ep \in listeners : ep.kind # "tcp"

\* Started with APP_PORT_NUMBER=8080, the process serves a request on 8080
C1_Witness ==
    /\ pc = "serving"
    /\ Numeral(startEnv, 8080)
    /\ listeners = {Tcp("0.0.0.0", 8080)}
    /\ ~Accepts(Tcp("0.0.0.0", 80))
    /\ \E c \in Conns : Answered(c)

----------------------------------------------------------------------------
(* C2 *)

\* C2 as stated: every answered GET / has status 200 and the greeting as body.
C2_AsStated ==
    \A c \in Conns :
        Answered(c) /\ GetRoot(conns[c].req) => IsGreeting(conns[c].res)

\* C2, amended: every GET / is answered with status 200 and the greeting as
\* body, whichever port was configured, unless the request carries a
\* validator the greeting satisfies; that request is answered 304 with an
\* empty body.
C2_GreetingOrNotModified ==
    \A c \in Conns :
        Answered(c) /\ GetRoot(conns[c].req) =>
            IF ValidatorHit(conns[c].req.headers)
            THEN conns[c].res.status = 304 /\ conns[c].res.body = <<>>
            ELSE IsGreeting(conns[c].res)

\* A plain GET / is answered with the greeting by a process on port 8080
C2_Witness ==
    /\ Numeral(startEnv, 8080)
    /\ \E c \in Conns :
          /\ Answered(c)
          /\ conns[c].req = Request("GET", <<"/">>, NoHeaders)
          /\ IsGreeting(conns[c].res)

----------------------------------------------------------------------------
(* C3 *)

\* C3: a GET for a path other than / is answered 404, never 200 and never
\* with the greeting as body, whatever was requested before or beside it.
C3_OtherPathsNotFound ==
    \A c \in Conns :
        /\ Answered(c)
        /\ conns[c].req.method = "GET"
        /\ Pathname(conns[c].req.url) # <<"/">>
        => /\ conns[c].res.status = 404
           /\ conns[c].res.status # 200
           /\ conns[c].res.body # <<Greeting>>

\* GET /health is answered 404 beside an answered GET /
C3_Witness ==
    \E c, d \in Conns :
        /\ Answered(c)
        /\ conns[c].req = Request("GET", <<"/", "h", "e", "a", "l", "t", "h">>, NoHeaders)
        /\ conns[c].res.status = 404
        /\ Answered(d)
        /\ IsGreeting(conns[d].res)

----------------------------------------------------------------------------
(* C4 *)

\* C4 as stated: any two answered GET / have the same body, whatever their
\* headers.
C4_AsStated ==
    \A c, d \in Conns :
        /\ Answered(c) /\ GetRoot(conns[c].req)
        /\ Answered(d) /\ GetRoot(conns[d].req)
        => conns[c].res.body = conns[d].res.body

\* C4, amended: any two answered GET / have the same body, however many
\* requests came before and whatever their headers, provided both or neither
\* carry a validator the greeting satisfies (the one that does gets the empty
\* body of a 304).
C4_SameBody ==
    \A c, d \in Conns :
        /\ Answered(c) /\ GetRoot(conns[c].req)
        /\ Answered(d) /\ GetRoot(conns[d].req)
        /\ ValidatorHit(conns[c].req.headers) = ValidatorHit(conns[d].req.headers)
        => conns[c].res.body = conns[d].res.body

\* Two GET / with different headers and URLs are answered with the same greeting
C4_Witness ==
    \E c, d \in Conns :
        /\ Answered(c) /\ GetRoot(conns[c].req)
        /\ Answered(d) /\ GetRoot(conns[d].req)
        /\ conns[c].req.headers = NoHeaders
        /\ conns[d].req.headers = Headers(TRUE, <<>>, TRUE, FALSE)
        /\ conns[c].res.body = <<Greeting>>
        /\ conns[d].res.body = <<Greeting>>

----------------------------------------------------------------------------
(* C5 *)

\* The port the process was started with belongs to someone else
C5_PortTaken ==
    /\ Started
    /\ \/ (Unset(startEnv) \/ Empty(startEnv)) /\ 80 \in inUse
       \/ NamesPort(startEnv, 1) /\ DecimalValue(startEnv.s) \in inUse

\* C5: when the configured port cannot be bound the process never serves and
\* never listens anywhere, attempts the bind once, and has crashed once the
\* attempt was made.
C5_BindFailureIsFatal ==
    C5_PortTaken =>
        /\ pc \in {"binding", "crashed"}
        /\ listeners = {}
        /\ bindAttempts <= 1
        /\ bindAttempts = 1 => pc = "crashed"

\* Started with APP_PORT_NUMBER=8080 while 8080 is taken, the process crashed
C5_Witness ==
    /\ Numeral(startEnv, 8080)
    /\ 8080 \in inUse
    /\ bindAttempts = 1
    /\ pc = "crashed"

----------------------------------------------------------------------------
(* C6 *)

\* C6: started with a value of APP_PORT_NUMBER that is set, not empty and not
\* the numeral of a port of [0, 65535], the process never serves.
C6_InvalidPortIsFatal ==
    /\ Started
    /\ ~(Unset(startEnv) \/ Empty(startEnv) \/ NamesPort(startEnv, 0))
    => pc # "serving"

----------------------------------------------------------------------------
(* C7 *)

\* C7 as stated: a request to / with a method other than GET is answered with
\* the greeting (for HEAD: the greeting's headers without a body) or with 404
\* or 405.
C7_AsStated ==
    \A c \in Conns :
        /\ Answered(c)
        /\ conns[c].req.method # "GET"
        /\ Pathname(conns[c].req.url) = <<"/">>
        => \/ IsGreeting(conns[c].res)
           \/ /\ conns[c].req.method = "HEAD"
              /\ conns[c].res.etag = Tag(TRUE, <<Greeting>>)
              /\ conns[c].res.body = <<>>
           \/ conns[c].res.status \in {404, 405}

\* C7, amended: to a request to / with a method other than GET the answer is
\* 404 for POST, PUT and DELETE; for HEAD it is the greeting's headers
\* without a body (200, or 304 for a validator the greeting satisfies); for
\* OPTIONS it is 200 with Allow: GET,HEAD and the body GET,HEAD.
C7_NonGet ==
    \A c \in Conns :
        /\ Answered(c)
        /\ conns[c].req.method # "GET"
        /\ Pathname(conns[c].req.url) = <<"/">>
        => CASE conns[c].req.method = "HEAD" ->
                    /\ conns[c].res.status =
                          IF ValidatorHit(conns[c].req.headers) THEN 304 ELSE 200
                    /\ conns[c].res.etag = Tag(TRUE, <<Greeting>>)
                    /\ conns[c].res.body = <<>>
             [] conns[c].req.method = "OPTIONS" ->
                    /\ conns[c].res.status = 200
                    /\ conns[c].res.allow = <<"GET", ",", "HEAD">>
                    /\ conns[c].res.body = <<"GET", ",", "HEAD">>
             [] OTHER ->
                    /\ conns[c].res.status = 404
                    /\ conns[c].res.body # <<Greeting>>

\* POST / is answered 404 and OPTIONS / is answered 200
C7_Witness ==
    \E c, d \in Conns :
        /\ Answered(c)
        /\ conns[c].req = Request("POST", <<"/">>, NoHeaders)
        /\ conns[c].res.status = 404
        /\ Answered(d)
        /\ conns[d].req = Request("OPTIONS", <<"/">>, NoHeaders)
        /\ conns[d].res.status = 200

----------------------------------------------------------------------------
(* C8 *)

\* C8 as stated: two answered requests with the same method and path have the
\* same response.
C8_AsStated ==
    \A c, d \in Conns :
        /\ Answered(c)
        /\ Answered(d)
        /\ conns[c].req.method = conns[d].req.method
        /\ Pathname(conns[c].req.url) = Pathname(conns[d].req.url)
        => conns[c].res = conns[d].res

\* C8, amended: in every interleaving, the response to a request is the one
\* every answered request with the same method, path and conditional headers
\* got, whatever else is in flight; and the step that handles a request
\* changes that connection only: not the routes, the port, the listeners, the
\* log or another connection.
C8_Independent ==
    [][\A c \in Conns :
          Handled(c) =>
              /\ \A d \in Conns :
                    /\ Answered(d)
                    /\ conns[d].req.method = conns[c].req.method
                    /\ Pathname(conns[d].req.url) = Pathname(conns[c].req.url)
                    /\ conns[d].req.headers = conns[c].req.headers
                    => conns'[c].res = conns[d].res
              /\ \A d \in Conns \ {c} : conns'[d] = conns[d]
              /\ conns'[c].req = conns[c].req
              /\ UNCHANGED <<routes, PORT, listeners, log, pc>>]_vars

\* A request was answered while another was in flight
C8_Witness ==
    \E c, d \in Conns :
        /\ Answered(c)
        /\ conns[d].st = "pending"
        /\ conns[c].req = conns[d].req

----------------------------------------------------------------------------
(* C9 *)

\* C9: the environment is read once, when the process starts; PORT never
\* changes afterwards; the process listens exactly while it is serving, and
\* on the same address in every serving state, whatever is requested and
\* whatever APP_PORT_NUMBER is changed to.
C9_AddressIsFixed ==
    [][/\ envReads' <= 1
       /\ Started => envReads = 1 /\ envReads' = 1 /\ PORT' = PORT
       /\ pc = "serving" /\ pc' = "serving" => listeners' = listeners
       /\ listeners' # {} <=> pc' = "serving"
       /\ pc = "serving" => pc' \in {"serving", "terminated"}]_vars

\* The process serves on 8080 after APP_PORT_NUMBER was changed to something
\* else and a request was answered
C9_Witness ==
    /\ pc = "serving"
    /\ Numeral(startEnv, 8080)
    /\ env # startEnv
    /\ listeners = {Tcp("0.0.0.0", 8080)}
    /\ \E c \in Conns : Answered(c)

----------------------------------------------------------------------------
(* C10 *)

\* The startup line for the address ep
C10_LineFor(ep) == <<"Running on http://", ep.host, ":">> \o NatToString(ep.port)

\* C10 as stated: the log of a process listening on a TCP address is the one
\* line that states that address.
C10_AsStated ==
    \A ep \in listeners : ep.kind = "tcp" => log = <<C10_LineFor(ep)>>

\* The text of APP_PORT_NUMBER as configured, 80 when unset or empty
C10_ConfiguredText ==
    IF Unset(startEnv) \/ Empty(startEnv) THEN <<"8", "0">> ELSE startEnv.s

\* C10, amended: at most one log line is ever written.  It is written when
\* the listener is bound and not otherwise, and it states 0.0.0.0 and the
\* port as configured, which for APP_PORT_NUMBER=0 is not the port bound.  The
\* step that handles a request leaves the log, the routes, the port and the
\* listeners as they were.
C10_OneStartupLine ==
    [][/\ Len(log') <= 1
       /\ log' # <<>> <=> pc' \in {"serving", "terminated"}
       /\ log' # <<>> =>
             log'[1] = <<"Running on http://", "0.0.0.0", ":">> \o C10_ConfiguredText'
       /\ log # <<>> => log' = log
       /\ \A c \in Conns :
             Handled(c) => UNCHANGED <<log, routes, PORT, listeners, pc, env>>]_vars

\* Started with APP_PORT_NUMBER=0, the process has logged port 0, listens on
\* another port and has answered a request
C10_Witness ==
    /\ pc = "serving"
    /\ Numeral(startEnv, 0)
    /\ log = <<<<"Running on http://", "0.0.0.0", ":", "0">>>>
    /\ \E p \in EphemeralPorts : listeners = {Tcp("0.0.0.0", p)}
    /\ \E c \in Conns : Answered(c)

=============================================================================
